---- MODULE Spec2Model ----
(***************************************************************************)
(* Digital gates of qcodes_measurements/device/digital.py.                 *)
(*                                                                         *)
(* A DigitalGate drives an analog voltage source to one of two levels      *)
(* (v_high / v_low) and reads a tri-state value back through a hysteresis  *)
(* window.  A DigitalGateWrapper dispatches the io_mode of a gate, and a   *)
(* DigitalDevice fans its default levels out to every registered gate.     *)
(*                                                                         *)
(* Voltages are integers in units of 0.9 V, so the device defaults of      *)
(* 1.8 V and 0 V are 2 and 0.                                              *)
(***************************************************************************)
EXTENDS Integers, Sequences, FiniteSets, TLC

\* ------------------------------------------------------------------ bounds
\* Largest voltage level (source voltage, v_high, v_low) explored.
MaxVolt == 2
\* Largest hysteresis (v_hist) explored.
MaxHist == 2
\* Number of gates registered on the device in the multi-gate configuration.
NumGates == 2

Volts == 0..MaxVolt
Hists == 0..MaxHist

\* ------------------------------------------------------- program constants
\* DigitalDevice.__init__: self._v_high = 1.8 (two units of 0.9 V)
DefaultVHigh == 2
\* DigitalDevice.__init__: self._v_low = 0
DefaultVLow == 0

\* class DigitalMode
DigitalMode == {"IN", "OUT", "PROBE_OUT", "HIGH", "LOW", "GND"}
\* DigitalMode.OUTPUT_MODES
OUTPUT_MODES == {"OUT", "PROBE_OUT", "HIGH", "LOW"}
\* DigitalMode.INPUT_MODES
INPUT_MODES == {"IN", "GND"}

\* Values a caller may hand to the io_mode parameter: the six modes and
\* two values outside the enumeration.
ModeInputs == DigitalMode \cup {"TRISTATE", "7"}

\* Outcome of the channel's capability call (open / dac / probe / ground).
CapabilityOutcomes == {"ok", "raise"}

VARIABLES
    gates,    \* gate index -> [v_high, v_low, v_hist, io_mode, lock, volt]
    dev,      \* the device's stored defaults [v_high, v_low]
    last,     \* the last call: [op, g, arg, ret, err, calls]
    pre,      \* the gates as they were before the last call on one gate
    latched   \* gate index -> set_io_mode(HIGH) done and lock not cleared since

vars == <<gates, dev, last, pre, latched>>

Abs(x) == IF x < 0 THEN -x ELSE x

\* ------------------------------------------------------------- DigitalGate
\* get_raw with the window closed at its edge (<= for <).
get_raw_inclusive(gt) ==
    IF Abs(gt.volt - gt.v_high) <= gt.v_hist THEN 1
    ELSE IF Abs(gt.volt - gt.v_low) <= gt.v_hist THEN 0
    ELSE -1

\* DigitalGate.get_raw
get_raw(gt) ==
    IF Abs(gt.volt - gt.v_high) < gt.v_hist THEN 1
    ELSE IF Abs(gt.volt - gt.v_low) < gt.v_hist THEN 0
    ELSE -1

\* set_raw without the lock test.
set_raw_ignoring_lock(gt, value) ==
    IF value # 0 THEN [gt EXCEPT !.volt = gt.v_high]
    ELSE [gt EXCEPT !.volt = gt.v_low]

\* set_raw with the two levels exchanged.
set_raw_levels_swapped(gt, value) ==
    IF gt.lock THEN gt
    ELSE IF value # 0 THEN [gt EXCEPT !.volt = gt.v_low]
    ELSE [gt EXCEPT !.volt = gt.v_high]

\* DigitalGate.set_raw; value is a number or bool, tested for truth
set_raw(gt, value) ==
    IF gt.lock THEN gt
    ELSE IF value # 0 THEN [gt EXCEPT !.volt = gt.v_high]
    ELSE [gt EXCEPT !.volt = gt.v_low]

\* v_high setter that leaves a locked gate alone.
v_high_setter_respecting_lock(gt, val) ==
    IF gt.lock THEN gt ELSE [gt EXCEPT !.v_high = val]

\* DigitalGate.v_high setter
v_high_setter(gt, val) ==
    LET g1 == [gt EXCEPT !.v_high = val]
        lock == g1.lock
        g2 == [g1 EXCEPT !.lock = FALSE]
        g3 == IF g2.io_mode \in OUTPUT_MODES THEN set_raw(g2, get_raw(g2)) ELSE g2
    IN [g3 EXCEPT !.lock = lock]

\* DigitalGate.v_low setter
v_low_setter(gt, val) ==
    LET g1 == [gt EXCEPT !.v_low = val]
        lock == g1.lock
        g2 == [g1 EXCEPT !.lock = FALSE]
        g3 == IF g2.io_mode \in OUTPUT_MODES THEN set_raw(g2, get_raw(g2)) ELSE g2
    IN [g3 EXCEPT !.lock = lock]

\* ------------------------------------------------------ DigitalGateWrapper
\* The capability DigitalGateWrapper._set_io_mode invokes first for a mode.
Capability(val) ==
    CASE val = "IN" -> "open"
      [] val = "OUT" -> "dac"
      [] val = "PROBE_OUT" -> "probe"
      [] val = "HIGH" -> "dac"
      [] val = "LOW" -> "dac"
      [] val = "GND" -> "ground"

\* _set_io_mode storing the new mode before the dispatch.
set_io_mode_storing_first(gt, val, outcome) ==
    LET g0 == [gt EXCEPT !.lock = FALSE, !.io_mode = val]
    IN IF outcome = "raise" THEN g0
       ELSE CASE val = "HIGH" -> [g0 EXCEPT !.volt = g0.v_high, !.lock = TRUE]
              [] val = "LOW" -> [g0 EXCEPT !.volt = g0.v_low, !.lock = TRUE]
              [] OTHER -> g0

\* DigitalGateWrapper._set_io_mode, for a value that passed the validator;
\* outcome is what the capability call of the branch does.
set_io_mode(gt, val, outcome) ==
    LET g0 == [gt EXCEPT !.lock = FALSE]
    IN IF outcome = "raise" THEN g0
       ELSE LET g1 == CASE val = "HIGH" -> [set_raw(g0, 1) EXCEPT !.lock = TRUE]
                        [] val = "LOW" -> [set_raw(g0, 0) EXCEPT !.lock = TRUE]
                        [] OTHER -> g0
            IN [g1 EXCEPT !.io_mode = val]

\* DigitalGate.__init__ as DigitalDevice.add_digital_gate calls it
NewGate(v_high, v_low, v_hist, io_mode, volt) ==
    [v_high |-> v_high, v_low |-> v_low, v_hist |-> v_hist,
     io_mode |-> io_mode, lock |-> FALSE, volt |-> volt]

\* DigitalDevice.add_digital_gate: build the gate with the device defaults,
\* then drive its io_mode through the wrapper.
add_digital_gate(d, io_mode, v_hist, volt) ==
    set_io_mode(NewGate(d.v_high, d.v_low, v_hist, io_mode, volt), io_mode, "ok")

NoCall == [op |-> "init", g |-> 0, arg |-> 0, ret |-> 0, err |-> "none", calls |-> <<>>]

Call(op, g, arg, ret, err, calls) ==
    [op |-> op, g |-> g, arg |-> arg, ret |-> ret, err |-> err, calls |-> calls]

\* The state after DigitalDevice.__init__ and n calls of add_digital_gate.
InitWith(n) ==
    /\ dev = [v_high |-> DefaultVHigh, v_low |-> DefaultVLow]
    /\ gates \in [1..n -> {add_digital_gate(dev, m, h, v) :
                              m \in DigitalMode, h \in Hists, v \in Volts}]
    /\ last = NoCall
    /\ pre = gates
    /\ latched = [g \in 1..n |-> gates[g].io_mode = "HIGH"]

Init == InitWith(1)

Gates == DOMAIN gates

\* out(): read the logical value
Read(g) ==
    /\ last' = Call("read", g, 0, get_raw(gates[g]), "none", <<>>)
    /\ pre' = gates
    /\ UNCHANGED <<gates, dev, latched>>

\* out(value): write a logical value
Write(g, value) ==
    /\ gates' = [gates EXCEPT ![g] = set_raw(@, value)]
    /\ last' = Call("write", g, value, 0, "none", <<>>)
    /\ pre' = gates
    /\ UNCHANGED <<dev, latched>>

\* wrapper.lock(b)
SetLock(g, b) ==
    /\ gates' = [gates EXCEPT ![g].lock = b]
    /\ last' = Call("lock", g, IF b THEN 1 ELSE 0, 0, "none", <<>>)
    /\ pre' = gates
    /\ latched' = [latched EXCEPT ![g] = @ /\ b]
    /\ UNCHANGED dev

\* wrapper.v_high(val)
SetVHigh(g, val) ==
    /\ gates' = [gates EXCEPT ![g] = v_high_setter(@, val)]
    /\ last' = Call("v_high", g, val, 0, "none", <<>>)
    /\ pre' = gates
    /\ UNCHANGED <<dev, latched>>

\* wrapper.v_low(val)
SetVLow(g, val) ==
    /\ gates' = [gates EXCEPT ![g] = v_low_setter(@, val)]
    /\ last' = Call("v_low", g, val, 0, "none", <<>>)
    /\ pre' = gates
    /\ UNCHANGED <<dev, latched>>

\* wrapper.io_mode(val) without the validator: an unknown value matches no
\* branch of _set_io_mode and is stored.
SetIoMode_unvalidated(g, val, outcome) ==
    /\ pre' = gates
    /\ UNCHANGED dev
    /\ gates' = [gates EXCEPT ![g] = set_io_mode(@, val, outcome)]
    /\ last' = Call("io_mode", g, val, 0,
                    IF outcome = "raise" THEN "CapabilityError" ELSE "none",
                    IF val \in DigitalMode THEN <<Capability(val)>> ELSE <<>>)
    /\ latched' = [latched EXCEPT ![g] = (val = "HIGH" /\ outcome = "ok")]

\* wrapper.io_mode(val): the Enum(*DigitalMode) validator, then _set_io_mode
SetIoMode(g, val, outcome) ==
    /\ pre' = gates
    /\ UNCHANGED dev
    /\ IF val \notin DigitalMode
       THEN /\ outcome = "ok"
            /\ last' = Call("io_mode", g, val, 0, "InvalidArgument", <<>>)
            /\ UNCHANGED <<gates, latched>>
       ELSE /\ gates' = [gates EXCEPT ![g] = set_io_mode(@, val, outcome)]
            /\ last' = Call("io_mode", g, val, 0,
                            IF outcome = "raise" THEN "CapabilityError" ELSE "none",
                            <<Capability(val)>>)
            /\ latched' = [latched EXCEPT ![g] = (val = "HIGH" /\ outcome = "ok")]

\* DigitalDevice._update_vhigh
update_vhigh(new_val) ==
    /\ gates' = [g \in Gates |-> v_high_setter(gates[g], new_val)]
    /\ dev' = [dev EXCEPT !.v_high = new_val]
    /\ last' = Call("dev_v_high", 0, new_val, 0, "none", <<>>)
    /\ pre' = <<>>
    /\ UNCHANGED latched

\* DigitalDevice._update_vlow
update_vlow(new_val) ==
    /\ gates' = [g \in Gates |-> v_low_setter(gates[g], new_val)]
    /\ dev' = [dev EXCEPT !.v_low = new_val]
    /\ last' = Call("dev_v_low", 0, new_val, 0, "none", <<>>)
    /\ pre' = <<>>
    /\ UNCHANGED latched

\* A gate of the multi-gate configuration: registered with add_digital_gate,
\* then given its own v_high and lock through its wrapper.
ConfiguredGate(m, h, x, b) ==
    [v_high_setter(add_digital_gate([v_high |-> DefaultVHigh, v_low |-> DefaultVLow],
                                    m, h, DefaultVLow), x)
        EXCEPT !.lock = b]

\* A device with NumGates gates in any combination of io_mode, lock and v_high,
\* all with the widest hysteresis window.
InitDev ==
    /\ dev = [v_high |-> DefaultVHigh, v_low |-> DefaultVLow]
    /\ gates \in [1..NumGates -> {ConfiguredGate(m, MaxHist, x, b) :
                                    m \in DigitalMode, x \in Volts, b \in BOOLEAN}]
    /\ last = NoCall
    /\ pre = gates
    /\ latched = [g \in 1..NumGates |-> gates[g].io_mode = "HIGH" /\ gates[g].lock]

Next ==
    \/ \E g \in Gates : Read(g)
    \/ \E g \in Gates, value \in {0, 1} : Write(g, value)
    \/ \E g \in Gates, b \in BOOLEAN : SetLock(g, b)
    \/ \E g \in Gates, val \in Volts : SetVHigh(g, val)
    \/ \E g \in Gates, val \in Volts : SetVLow(g, val)
    \/ \E g \in Gates, val \in ModeInputs, outcome \in CapabilityOutcomes :
          SetIoMode(g, val, outcome)
    \/ \E new_val \in Volts : update_vhigh(new_val)
    \/ \E new_val \in Volts : update_vlow(new_val)

Spec == Init /\ [][Next]_vars

\* The device-wide setters on a device with several gates.
NextDev ==
    \/ \E new_val \in Volts : update_vhigh(new_val)
    \/ \E new_val \in Volts : update_vlow(new_val)

SpecDev == InitDev /\ [][NextDev]_vars

\* ------------------------------------------------------------------ claims
\* The gate the last call addressed, after and before the call.
Now == gates[last.g]
Before == pre[last.g]

\* C1: a write issued while lock is true changes nothing of the gate (source
\* voltage, v_high, v_low, io_mode, lock), for a true and for a false value;
\* a write issued while lock is false drives the source to v_high for a true
\* value and to v_low for a false value.
C1_LockedWriteIsNoOp ==
    last.op = "write" =>
        /\ Before.lock => Now = Before
        /\ ~Before.lock =>
              /\ Now.volt = (IF last.arg = 1 THEN Before.v_high ELSE Before.v_low)
              /\ [Now EXCEPT !.volt = Before.volt] = Before

\* C1 witness: a locked gate was told to take the value it does not have.
C1_Witness ==
    /\ last.op = "write"
    /\ Before.lock
    /\ last.arg = 1
    /\ Before.volt # Before.v_high
    /\ Now.volt = Before.volt

\* C2: in an output mode, setting v_high or v_low re-applies the logical value
\* the gate had before the change: a gate that read LOW ends at the new v_low,
\* a gate that read HIGH ends at the new v_high.
C2_ReapplyKeepsLogicalValue ==
    (last.op \in {"v_high", "v_low"} /\ Before.io_mode \in OUTPUT_MODES) =>
        /\ get_raw(Before) = 0 => Now.volt = Now.v_low
        /\ get_raw(Before) = 1 => Now.volt = Now.v_high

\* C3: for a gate in mode OUT that reads HIGH, setting v_high to X leaves the
\* source at X, locked or not, and lock as it was.
C3_VHighRedrivesHighGate ==
    (last.op = "v_high" /\ Before.io_mode = "OUT" /\ get_raw(Before) = 1) =>
        /\ Now.volt = last.arg
        /\ Now.lock = Before.lock

\* C4: set_io_mode(HIGH) leaves the source at v_high and the gate locked, and
\* until lock is explicitly set to false every write is a no-op that leaves
\* the source at v_high.
C4_HighStaysHigh ==
    /\ (last.op = "io_mode" /\ last.arg = "HIGH" /\ last.err = "none") =>
           (Now.lock /\ Now.volt = Now.v_high)
    /\ (last.op = "write" /\ latched[last.g]) =>
           (Now = Before /\ Now.volt = Now.v_high)

\* C5: after set_io_mode(m) completes for m in {HIGH, LOW, GND} the gate is
\* locked and a following write through out does not change the source.
C5_ForcedModesLock ==
    (last.op = "io_mode" /\ last.err = "none" /\ last.arg \in {"HIGH", "LOW", "GND"}) =>
        /\ Now.lock
        /\ \A value \in {0, 1} : set_raw(Now, value).volt = Now.volt

\* C6 as stated: for every unlocked gate and every hysteresis >= 0,
\* write(true) followed by read() returns HIGH.
C6_WriteTrueReadsHigh ==
    (last.op = "write" /\ last.arg = 1 /\ ~Before.lock) => get_raw(Now) = 1

\* C6 amended: for every unlocked gate with hysteresis > 0, write(true)
\* followed by read() returns HIGH.
C6_WriteTrueReadsHighPositiveHist ==
    (last.op = "write" /\ last.arg = 1 /\ ~Before.lock /\ Now.v_hist > 0) =>
        get_raw(Now) = 1

\* C6 witness: an unlocked gate away from v_high, and within hysteresis of
\* v_low after the write as well, was written true.
C6_Witness ==
    /\ last.op = "write"
    /\ last.arg = 1
    /\ ~Before.lock
    /\ Now.v_hist > 0
    /\ Before.volt # Before.v_high
    /\ Now.v_low # Now.v_high
    /\ Abs(Now.volt - Now.v_low) < Now.v_hist

C8_FanOutReachesEveryGate ==
    /\ last.op = "dev_v_high" =>
          (dev.v_high = last.arg /\ \A g \in Gates : gates[g].v_high = last.arg)
    /\ last.op = "dev_v_low" =>
          (dev.v_low = last.arg /\ \A g \in Gates : gates[g].v_low = last.arg)

\* C8 witness: the v_high fan-out ran over a locked input-mode gate and an
\* unlocked output-mode gate, to a value that is not the default.
C8_Witness ==
    /\ last.op = "dev_v_high"
    /\ last.arg # DefaultVHigh
    /\ \E g1, g2 \in Gates :
          /\ gates[g1].lock /\ gates[g1].io_mode \in INPUT_MODES
          /\ ~gates[g2].lock /\ gates[g2].io_mode \in OUTPUT_MODES

\* C9: setting io_mode to a value outside the six modes fails with
\* InvalidArgument before any capability call and leaves the gate as it was.
C9_InvalidModeRejected ==
    (last.op = "io_mode" /\ last.arg \notin DigitalMode) =>
        /\ last.err = "InvalidArgument"
        /\ last.calls = <<>>
        /\ Now.io_mode = Before.io_mode
        /\ Now.io_mode \in DigitalMode

\* C9 witness: an unknown mode was handed to a locked gate.
C9_Witness ==
    /\ last.op = "io_mode"
    /\ last.arg = "TRISTATE"
    /\ last.err = "InvalidArgument"
    /\ Now.lock

\* C10: when the capability call fails during set_io_mode the failure reaches
\* the caller, io_mode keeps its previous value, and the lock cleared at the
\* start stays cleared; nothing else of the gate has changed.
C10_FailedTransitionNotRolledBack ==
    (last.op = "io_mode" /\ last.arg \in DigitalMode /\ last.calls # <<>>
       /\ last.err # "none") =>
        /\ last.err = "CapabilityError"
        /\ Now.io_mode = Before.io_mode
        /\ ~Now.lock
        /\ Now = [Before EXCEPT !.lock = FALSE]

\* C10 witness: the capability of a transition to another mode failed on a
\* gate that was locked.
C10_Witness ==
    /\ last.op = "io_mode"
    /\ last.err = "CapabilityError"
    /\ Before.lock
    /\ ~Now.lock
    /\ last.arg # Now.io_mode

====
